---- MODULE Spec2Model ----
(***************************************************************************)
(* The node viewer of src/tui.rs as a state machine.                       *)
(*                                                                         *)
(* enter_node_view builds a NodeDefRenderer from a parsed node             *)
(* (from_node, which runs init_layout), initialises the terminal, runs the *)
(* draw/read loop of run, restores the terminal and returns run's result.  *)
(*                                                                         *)
(* The graph (output Root connections and the instance table) is the       *)
(* input: Init draws it from a bounded family of graphs.                   *)
(***************************************************************************)
EXTENDS Integers, Sequences, FiniteSets, TLC

(***************************************************************************)
(* Bounds of the model and constants of the program.                       *)
(***************************************************************************)

\* The "no connection" instance id (tui.rs:170, tui.rs:186).
Sentinel == 255

\* Instance ids 1..NumInstances are the keys of the instance table.
NumInstances == 4

\* Worklist iterations are explored while the popped depth is below DepthCap
\* (depths grow without bound on a cyclic graph).
DepthCap == 6

\* Frames drawn in one session of the render loop.
MaxFrames == 2

\* An instance id that is the key of no instance.
Absent == NumInstances + 1

\* Source of the output Root's connections in the edge lists below.
OutputRoot == 0

\* Target marking a socket that holds literal data instead of a connection.
LiteralData == -1

InstanceIds == 1..NumInstances

(***************************************************************************)
(* Helpers on sets, sequences and maps.                                    *)
(***************************************************************************)

Range(s) == {s[i] : i \in DOMAIN s}

\* The first operand kept, as when the result of max is not assigned.
MaxKeepsFirst(a, b) == a

Max(a, b) == IF a >= b THEN a ELSE b

SetMin(S) == CHOOSE m \in S : \A x \in S : m <= x

RECURSIVE SortAsc(_)
SortAsc(S) == IF S = {} THEN <<>>
              ELSE <<SetMin(S)>> \o SortAsc(S \ {SetMin(S)})

Reverse(s) == [i \in 1..Len(s) |-> s[Len(s) + 1 - i]]

\* HashMap::insert: the new value replaces whatever the key held.
Insert(map, key, value) == (key :> value) @@ map

\* All orders in which the entries of a set can be visited.
Orders(S) == {s \in [1..Cardinality(S) -> S] : \A i, j \in DOMAIN s : s[i] = s[j] => i = j}

(***************************************************************************)
(* The graph handed to enter_node_view.                                    *)
(***************************************************************************)

\* socket.data: Some(DataType::Connection(id, _)) or anything else.
Connection(id) == [connected |-> TRUE, id |-> id]
Literal == [connected |-> FALSE, id |-> 0]

SocketOf(target) == IF target = LiteralData THEN Literal ELSE Connection(target)

\* Edges a graph of the layout family may contain: <<source, target>>.
LayoutEdges ==
    { <<OutputRoot, 1>>, <<OutputRoot, 2>>, <<OutputRoot, Sentinel>>, <<OutputRoot, Absent>>,
      <<1, 2>>, <<1, 3>>, <<1, 4>>,
      <<2, 3>>, <<2, 4>>, <<2, Sentinel>>,
      <<3, 4>>, <<3, Absent>>, <<3, LiteralData>>,
      <<4, 1>> }

\* Edges a graph of a whole viewer session may contain.
SessionEdges ==
    { <<OutputRoot, 1>>, <<OutputRoot, 2>>, <<OutputRoot, Sentinel>>,
      <<1, 3>>, <<2, 3>>, <<2, Sentinel>>,
      <<3, Absent>>, <<3, 1>> }

TargetsOf(edges, source) == {e[2] : e \in {x \in edges : x[1] = source}}

\* The targets of one source in list order: ascending, or descending.
Ordered(targets, descending) ==
    IF descending THEN Reverse(SortAsc(targets)) ELSE SortAsc(targets)

\* roots.output_connections, instance ids only (the socket index is never read).
RootsOf(edges, descending) == Ordered(TargetsOf(edges, OutputRoot), descending)

\* The y value stored in instance i: instances with a larger key lie higher.
YHint(i) == NumInstances - i

\* One Instance: its key, its stored y value and its ordered sockets.
InstanceOf(edges, descending, i) ==
    LET targets == Ordered(TargetsOf(edges, i), descending)
    IN  [key |-> i, y |-> YHint(i),
         sockets |-> [k \in 1..Len(targets) |-> SocketOf(targets[k])]]

\* from_node: the instance table keyed by instance.key.
TableOf(edges, descending) == [i \in InstanceIds |-> InstanceOf(edges, descending, i)]

(***************************************************************************)
(* State.                                                                  *)
(***************************************************************************)

VARIABLES
    roots,            \* NodeDefRenderer.roots.output_connections (instance ids)
    instance_table,   \* NodeDefRenderer.instance_table
    instance_layout,  \* NodeDefRenderer.instance_layout: the columns, column 0 first
    x_shift,          \* NodeDefRenderer.x_shift
    y_shift,          \* NodeDefRenderer.y_shift
    depths,           \* init_layout: the depth map
    to_process,       \* init_layout: the worklist, popped from its end
    max_depth,        \* init_layout: the largest depth popped so far
    root_idx,         \* init_layout: output connections already visited by the seeding loop
    pc,               \* where enter_node_view stands
    term_inits,       \* calls of ratatui::init that returned
    term_restores,    \* calls of ratatui::restore
    draws,            \* completed terminal.draw calls
    reads,            \* completed event::read calls
    io_error,         \* the I/O failure the terminal or the event source raised, if any
    result,           \* run's return value, kept by enter_node_view
    frame             \* the last frame drawn: its area, the rectangles asked for and written

vars == <<roots, instance_table, instance_layout, x_shift, y_shift, depths, to_process,
          max_depth, root_idx, pc, term_inits, term_restores, draws, reads, io_error, result,
          frame>>

graphVars == <<roots, instance_table>>
layoutVars == <<depths, to_process, max_depth, root_idx>>
viewVars == <<x_shift, y_shift>>
sessionVars == <<term_inits, term_restores, draws, reads, io_error, result, frame>>

EmptyMap == [k \in {} |-> 0]

\* Rect::new(x, y, width, height)
Rect(x, y, width, height) == [x |-> x, y |-> y, width |-> width, height |-> height]

\* Nothing has been drawn yet.
NoFrame == [area |-> Rect(0, 0, 0, 0), requests |-> <<>>, written |-> <<>>]

\* from_node up to the call of init_layout, for the graph made of `edges`.
InitWith(edgeFamily) ==
    /\ \E edges \in SUBSET edgeFamily : \E descending \in BOOLEAN :
          /\ roots = RootsOf(edges, descending)
          /\ instance_table = TableOf(edges, descending)
    /\ instance_layout = <<>>
    /\ x_shift = 0
    /\ y_shift = 0
    /\ depths = EmptyMap
    /\ to_process = <<>>
    /\ max_depth = 0
    /\ root_idx = 0
    /\ pc = "seed"
    /\ term_inits = 0
    /\ term_restores = 0
    /\ draws = 0
    /\ reads = 0
    /\ io_error = "none"
    /\ result = "none"
    /\ frame = NoFrame

Init == InitWith(SessionEdges)

LayoutInit == InitWith(LayoutEdges)

(***************************************************************************)
(* init_layout.                                                            *)
(***************************************************************************)

\* A comparison against the wrong reserved id.
IsSentinelOffByOne(id) == id = Sentinel + 1

\* *instance_id == 255, connection_id == 255
IsSentinel(id) == id = Sentinel

\* Seeding that starts the instances next to the output Root at depth 1.
SeedStepFromOne(st, instance_id) ==
    IF IsSentinel(instance_id)
    THEN st
    ELSE [st EXCEPT !.depths = Insert(st.depths, instance_id, 1),
                    !.to_process = Append(st.to_process, instance_id)]

\* The body of the seeding loop for one output connection, on the layout state st.
SeedStep(st, instance_id) ==
    IF IsSentinel(instance_id)
    THEN st
    ELSE [st EXCEPT !.depths = Insert(st.depths, instance_id, 0),
                    !.to_process = Append(st.to_process, instance_id)]

LayoutState == [depths |-> depths, to_process |-> to_process, max_depth |-> max_depth,
                panicked |-> FALSE]

\* One pass of the seeding loop over roots.output_connections.
SeedRoot ==
    /\ pc = "seed"
    /\ root_idx < Len(roots)
    /\ LET next == SeedStep(LayoutState, roots[root_idx + 1])
       IN  /\ depths' = next.depths
           /\ to_process' = next.to_process
    /\ root_idx' = root_idx + 1
    /\ UNCHANGED <<graphVars, instance_layout, viewVars, max_depth, pc, sessionVars>>

\* The seeding loop is over: max_depth = 0 and the worklist loop starts.
SeedDone ==
    /\ pc = "seed"
    /\ root_idx = Len(roots)
    /\ max_depth' = 0
    /\ pc' = "loop"
    /\ UNCHANGED <<graphVars, instance_layout, viewVars, depths, to_process, root_idx,
                   sessionVars>>

\* The socket loop that records every proposal but pushes an instance only
\* the first time it gets a depth.
RECURSIVE ProcessSocketsPushOnce(_, _, _, _, _)
ProcessSocketsPushOnce(sockets, k, instance_depth, d, tp) ==
    IF k > Len(sockets)
    THEN [depths |-> d, to_process |-> tp]
    ELSE LET socket == sockets[k]
         IN  IF socket.connected /\ ~IsSentinel(socket.id)
             THEN ProcessSocketsPushOnce(sockets, k + 1, instance_depth,
                                         Insert(d, socket.id, instance_depth + 1),
                                         IF socket.id \in DOMAIN d
                                         THEN tp ELSE Append(tp, socket.id))
             ELSE ProcessSocketsPushOnce(sockets, k + 1, instance_depth, d, tp)

\* The loop over the sockets of the popped instance, from socket k on.
RECURSIVE ProcessSockets(_, _, _, _, _)
ProcessSockets(sockets, k, instance_depth, d, tp) ==
    IF k > Len(sockets)
    THEN [depths |-> d, to_process |-> tp]
    ELSE LET socket == sockets[k]
         IN  IF socket.connected /\ ~IsSentinel(socket.id)
             THEN ProcessSockets(sockets, k + 1, instance_depth,
                                 Insert(d, socket.id, instance_depth + 1),
                                 Append(tp, socket.id))
             ELSE ProcessSockets(sockets, k + 1, instance_depth, d, tp)

\* The iteration that passes over an instance missing from the table.
LoopStepSkippingMissing(table, st) ==
    LET instance_id == st.to_process[Len(st.to_process)]
        rest == SubSeq(st.to_process, 1, Len(st.to_process) - 1)
        instance_depth == st.depths[instance_id]
        deepest == Max(st.max_depth, instance_depth)
    IN  IF instance_id \notin DOMAIN table
        THEN [st EXCEPT !.to_process = rest, !.max_depth = deepest]
        ELSE LET after == ProcessSockets(table[instance_id].sockets, 1,
                                         instance_depth, st.depths, rest)
             IN  [depths |-> after.depths, to_process |-> after.to_process,
                  max_depth |-> deepest, panicked |-> FALSE]

\* One iteration of the worklist loop on the layout state st: the outcome is
\* the next layout state, or a panic of one of the unwraps.
LoopStep(table, st) ==
    LET instance_id == st.to_process[Len(st.to_process)]
        rest == SubSeq(st.to_process, 1, Len(st.to_process) - 1)
    IN  IF instance_id \notin DOMAIN st.depths
        THEN [st EXCEPT !.to_process = rest, !.panicked = TRUE]
        ELSE LET instance_depth == st.depths[instance_id]
                 deepest == Max(st.max_depth, instance_depth)
             IN  IF instance_id \notin DOMAIN table
                 THEN [st EXCEPT !.to_process = rest, !.max_depth = deepest,
                                 !.panicked = TRUE]
                 ELSE LET after == ProcessSockets(table[instance_id].sockets, 1,
                                                  instance_depth, st.depths, rest)
                      IN  [depths |-> after.depths, to_process |-> after.to_process,
                           max_depth |-> deepest, panicked |-> FALSE]

\* The depth at the top of the worklist is one the model still explores.
WithinCap(st) ==
    LET top == st.to_process[Len(st.to_process)]
    IN  top \in DOMAIN st.depths => st.depths[top] < DepthCap

\* while to_process.len() > 0 { ... }: one iteration.
ProcessNext ==
    /\ pc = "loop"
    /\ Len(to_process) > 0
    /\ WithinCap(LayoutState)
    /\ LET next == LoopStep(instance_table, LayoutState)
       IN  /\ depths' = next.depths
           /\ to_process' = next.to_process
           /\ max_depth' = next.max_depth
           /\ pc' = IF next.panicked THEN "panicked" ELSE "loop"
    /\ UNCHANGED <<graphVars, instance_layout, viewVars, root_idx, sessionVars>>

\* The columns for one visiting order of the depth map: column k holds the
\* instances of depth k, in the order visited.
ColumnsOf(d, deepest, order) ==
    [k \in 1..(deepest + 1) |->
        LET InColumn(id) == d[id] = k - 1
        IN  SelectSeq(order, InColumn)]

\* Reorganize into columns, once the worklist is empty; init_layout and from_node return.
BuildColumns ==
    /\ pc = "loop"
    /\ Len(to_process) = 0
    /\ IF \E id \in DOMAIN depths : depths[id] > max_depth
       THEN /\ pc' = "panicked"
            /\ UNCHANGED instance_layout
       ELSE /\ \E order \in Orders(DOMAIN depths) :
                  instance_layout' = ColumnsOf(depths, max_depth, order)
            /\ pc' = "term_init"
    /\ UNCHANGED <<graphVars, viewVars, layoutVars, sessionVars>>

LayoutNext == SeedRoot \/ SeedDone \/ ProcessNext \/ BuildColumns

LayoutSpec == LayoutInit /\ [][LayoutNext]_vars

(***************************************************************************)
(* enter_node_view and run.                                                *)
(***************************************************************************)

KeyCodes == {"q", "Q", "Left", "Right", "Up", "Down", "Esc"}
KeyKinds == {"Press", "Repeat", "Release"}

KeyEvent(code, kind) == [type |-> "Key", code |-> code, kind |-> kind]

\* What event::read can deliver.
Events == {KeyEvent(code, kind) : code \in KeyCodes, kind \in KeyKinds}
          \cup {[type |-> t, code |-> "none", kind |-> "none"] : t \in {"Resize", "Mouse"}}

\* let terminal = ratatui::init();
InitTerminal ==
    /\ pc = "term_init"
    /\ term_inits' = term_inits + 1
    /\ pc' = "draw"
    /\ UNCHANGED <<graphVars, instance_layout, viewVars, layoutVars, term_restores, draws,
                   reads, io_error, result, frame>>

\* An error of run handed straight to the caller of enter_node_view.
RunReturnsSkippingRestore(r) ==
    /\ result' = r
    /\ pc' = IF r = "Ok" THEN "restore" ELSE "returned"

\* run returns r to enter_node_view, which restores the terminal next.
RunReturns(r) ==
    /\ result' = r
    /\ pc' = "restore"

\* render looks every member of every column up in the instance table.
RenderPanics ==
    \E k \in DOMAIN instance_layout :
        \E id \in Range(instance_layout[k]) : id \notin DOMAIN instance_table

(***************************************************************************)
(* render: the rectangles a frame asks the buffer to style.                *)
(***************************************************************************)

\* InstanceRenderer::from_instance: width and height of an instance box.
BoxWidth == 20
BoxHeight == 5

\* The box drawn for the input root.
RootBoxWidth == 20
RootBoxHeight == 5

\* render: pad_x, pad_y.
PadX == 3
PadY == 1

\* Widths and heights of the terminal area a frame may have.
GridWidths == {10, 30, 50}
GridHeights == {3, 8}

\* `as u16`
U16(n) == n % 65536

\* The row counter carried over from the previous column.
ColumnStartYKept(cur_y) == cur_y

\* cur_y = 0 at the start of every column.
ColumnStartY(cur_y) == 0

\* InstanceRenderer::from_instance(instance, x_pos, y_pos)
InstanceRenderer(instance, x_pos, y_pos) ==
    [id |-> instance.key, x_pos |-> x_pos, y_pos |-> y_pos,
     width |-> BoxWidth, height |-> BoxHeight]

\* The loop over the instances of one column, from place j on: the requests
\* made, the row counter and the widest box.
RECURSIVE RenderColumn(_, _, _, _, _, _, _)
RenderColumn(table, column, k, j, cur_x, cur_y, out) ==
    IF j > Len(column)
    THEN out
    ELSE LET renderer == InstanceRenderer(table[column[j]], cur_x, cur_y)
             draw_area == Rect(U16(cur_x), U16(cur_y), U16(renderer.width),
                               U16(renderer.height))
             request == [kind |-> "instance", column |-> k, id |-> renderer.id,
                         area |-> draw_area]
         IN  RenderColumn(table, column, k, j + 1, cur_x, cur_y + renderer.height + PadY,
                          [requests |-> Append(out.requests, request),
                           max_width |-> Max(out.max_width, renderer.width)])

\* The loop over the columns, last column first, from column k down.
RECURSIVE RenderColumns(_, _, _, _, _, _)
RenderColumns(table, layout, k, cur_x, cur_y, requests) ==
    IF k < 1
    THEN requests
    ELSE LET out == RenderColumn(table, layout[k], k, 1, cur_x, ColumnStartY(cur_y),
                                 [requests |-> requests, max_width |-> 0])
             last_y == ColumnStartY(cur_y) + Len(layout[k]) * (BoxHeight + PadY)
         IN  RenderColumns(table, layout, k - 1, cur_x + out.max_width + PadX, last_y,
                           out.requests)

\* Widget for &NodeDefRenderer: every rectangle render hands to the buffer, in order.
RenderRequests(table, layout) ==
    LET root == [kind |-> "input_root", column |-> 0, id |-> 0,
                 area |-> Rect(U16(0), U16(0), RootBoxWidth, RootBoxHeight)]
    IN  RenderColumns(table, layout, Len(layout), 0 + RootBoxWidth + PadX, 0, <<root>>)

\* The buffer styles the rectangle as it was asked, without looking at its own area.
SetStyleUnclipped(area, rect) == rect

\* Buffer::set_style: the part of the rectangle inside the buffer's area is styled.
SetStyle(area, rect) ==
    LET x1 == Max(area.x, rect.x)
        y1 == Max(area.y, rect.y)
        x2 == IF area.x + area.width <= rect.x + rect.width
              THEN area.x + area.width ELSE rect.x + rect.width
        y2 == IF area.y + area.height <= rect.y + rect.height
              THEN area.y + area.height ELSE rect.y + rect.height
    IN  Rect(x1, y1, IF x2 > x1 THEN x2 - x1 ELSE 0, IF y2 > y1 THEN y2 - y1 ELSE 0)

\* One frame: render on a buffer of the given area.
FrameOf(area, table, layout) ==
    LET requests == RenderRequests(table, layout)
    IN  [area |-> area, requests |-> requests,
         written |-> [i \in DOMAIN requests |-> SetStyle(area, requests[i].area)]]

\* A draw that takes the columns out of the renderer while rendering them.
DrawTakingLayout ==
    /\ pc = "draw"
    /\ draws < MaxFrames
    /\ \E w \in GridWidths : \E h \in GridHeights :
          frame' = FrameOf(Rect(0, 0, w, h), instance_table, instance_layout)
    /\ instance_layout' = <<>>
    /\ draws' = draws + 1
    /\ pc' = "read"
    /\ UNCHANGED <<graphVars, viewVars, layoutVars, term_inits, term_restores, reads,
                   io_error, result>>

\* terminal.draw(|frame| frame.render_widget(&renderer, frame.area()))?
Draw ==
    /\ pc = "draw"
    /\ draws < MaxFrames
    /\ IF RenderPanics
       THEN /\ pc' = "panicked"
            /\ UNCHANGED <<draws, io_error, result, frame>>
       ELSE \/ /\ \E w \in GridWidths : \E h \in GridHeights :
                     frame' = FrameOf(Rect(0, 0, w, h), instance_table, instance_layout)
               /\ draws' = draws + 1
               /\ pc' = "read"
               /\ UNCHANGED <<io_error, result>>
            \/ /\ io_error' = "draw"
               /\ RunReturns("Err_draw")
               /\ UNCHANGED <<draws, frame>>
    /\ UNCHANGED <<graphVars, instance_layout, viewVars, layoutVars, term_inits,
                   term_restores, reads>>

\* The quit key without the test of the event's kind.
IsQuitAnyKind(e) == e.type = "Key" /\ e.code = "q"

\* The event that leaves the loop: a press of 'q'.
IsQuit(e) == e.type = "Key" /\ e.kind = "Press" /\ e.code = "q"

\* The loop body with the `continue` of a key event that is no press going
\* back to the read instead of the top of the loop.
HandleEventRereading(e) ==
    /\ pc = "read"
    /\ reads' = reads + 1
    /\ IF IsQuit(e)
       THEN RunReturns("Ok")
       ELSE /\ pc' = IF e.type = "Key" /\ e.kind # "Press" THEN "read" ELSE "draw"
            /\ UNCHANGED result
    /\ UNCHANGED <<graphVars, instance_layout, viewVars, layoutVars, term_inits,
                   term_restores, draws, io_error, frame>>

\* The body of the loop after event::read returned the event e.
HandleEvent(e) ==
    /\ pc = "read"
    /\ reads' = reads + 1
    /\ IF IsQuit(e)
       THEN RunReturns("Ok")
       ELSE /\ pc' = "draw"
            /\ UNCHANGED result
    /\ UNCHANGED <<graphVars, instance_layout, viewVars, layoutVars, term_inits,
                   term_restores, draws, io_error, frame>>

\* event::read()? returned an event.
ReadEvent == \E e \in Events : HandleEvent(e)

\* event::read()? failed.
ReadFails ==
    /\ pc = "read"
    /\ io_error' = "read"
    /\ RunReturns("Err_read")
    /\ UNCHANGED <<graphVars, instance_layout, viewVars, layoutVars, term_inits,
                   term_restores, draws, reads, frame>>

\* ratatui::restore(); result
Restore ==
    /\ pc = "restore"
    /\ term_restores' = term_restores + 1
    /\ pc' = "returned"
    /\ UNCHANGED <<graphVars, instance_layout, viewVars, layoutVars, term_inits, draws,
                   reads, io_error, result, frame>>

Next ==
    \/ SeedRoot
    \/ SeedDone
    \/ ProcessNext
    \/ BuildColumns
    \/ InitTerminal
    \/ Draw
    \/ ReadEvent
    \/ ReadFails
    \/ Restore

Spec == Init /\ [][Next]_vars

(***************************************************************************)
(* The connection graph, as the claims speak of it.                        *)
(***************************************************************************)

SetMax(S) == CHOOSE m \in S : \A x \in S : m >= x

\* Every instance id a socket list refers to, the sentinel included.
SocketTargets(sockets) == {sockets[k].id : k \in {j \in DOMAIN sockets : sockets[j].connected}}

\* The instances the sockets of instance i are connected to.
ConnectedTo(i) ==
    IF i \in DOMAIN instance_table
    THEN SocketTargets(instance_table[i].sockets) \ {Sentinel}
    ELSE {}

\* The instances directly connected to the output Root.
RootConnected == Range(roots) \ {Sentinel}

RECURSIVE Closure(_)
Closure(S) ==
    LET further == S \cup UNION {ConnectedTo(i) : i \in S}
    IN  IF further = S THEN S ELSE Closure(further)

\* The ids a traversal from the output Root can reach.
Reachable == Closure(RootConnected)

\* No connection path from the output Root runs into a cycle.
Acyclic == \A i \in Reachable : i \notin Closure(ConnectedTo(i))

\* Some connection names an instance that is not in the table.
HasDangling ==
    \/ \E id \in RootConnected : id \notin DOMAIN instance_table
    \/ \E i \in DOMAIN instance_table : \E id \in ConnectedTo(i) : id \notin DOMAIN instance_table

\* The length of the longest connection path to X from an instance directly
\* connected to the output Root (on an acyclic graph).
RECURSIVE LongestPath(_)
LongestPath(X) ==
    LET viaConsumers == {LongestPath(P) + 1 : P \in {Q \in Reachable : X \in ConnectedTo(Q)}}
        direct == IF X \in RootConnected THEN {0} ELSE {}
    IN  SetMax(viaConsumers \cup direct)

\* The worklist loop of init_layout has finished.
LoopFinished == pc \notin {"seed", "panicked"} /\ (pc = "loop" => to_process = <<>>)

\* init_layout has returned.
LayoutDone == pc \notin {"seed", "loop", "panicked"}

\* The places of the columns: <<column, row>>.
ColumnSlots ==
    UNION {{<<k, j>> : j \in DOMAIN instance_layout[k]} : k \in DOMAIN instance_layout}

InColumns == {instance_layout[s[1]][s[2]] : s \in ColumnSlots}

Occurrences(id) == Cardinality({s \in ColumnSlots : instance_layout[s[1]][s[2]] = id})

(***************************************************************************)
(* init_layout run to the end of its worklist loop, as a function of the   *)
(* graph: the same steps the actions take.                                 *)
(***************************************************************************)

RECURSIVE SeedFrom(_, _, _)
SeedFrom(rts, k, st) ==
    IF k > Len(rts) THEN st ELSE SeedFrom(rts, k + 1, SeedStep(st, rts[k]))

RECURSIVE RunLoop(_, _)
RunLoop(table, st) ==
    IF st.panicked \/ Len(st.to_process) = 0 \/ ~WithinCap(st)
    THEN st
    ELSE RunLoop(table, LoopStep(table, st))

LayoutRun(rts, table) ==
    RunLoop(table, SeedFrom(rts, 1, [depths |-> EmptyMap, to_process |-> <<>>,
                                     max_depth |-> 0, panicked |-> FALSE]))

\* The same graph with the output connections and every socket list in the opposite order.
MirrorTable == [i \in DOMAIN instance_table |->
                   [instance_table[i] EXCEPT !.sockets = Reverse(@)]]

(***************************************************************************)
(* The layout claims, checked under LayoutSpec.                            *)
(***************************************************************************)

\* C1: on an acyclic graph, when the worklist loop has finished, the depth
\* recorded for every instance is the largest proposal made for it: the length
\* of the longest connection path to it from an instance directly connected to
\* the output Root.
C1_DepthIsLongestPath ==
    (LoopFinished /\ Acyclic) =>
        \A X \in DOMAIN depths : depths[X] = LongestPath(X)

\* C2: on an acyclic graph, the depth map the loop ends with is the one it ends
\* with when the output connections and the sockets are visited in the
\* opposite order.
C2_OrderIndependent ==
    (LoopFinished /\ Acyclic) =>
        depths = LayoutRun(Reverse(roots), MirrorTable).depths

\* C3: after init_layout every key of the instance table is in exactly one
\* place of the columns, and the columns hold nothing but keys of the table.
C3_ColumnsPartitionTable ==
    LayoutDone =>
        /\ \A id \in DOMAIN instance_table : Occurrences(id) = 1
        /\ InColumns \subseteq DOMAIN instance_table

\* C4: the sentinel id is never a key of the depth map, never in the worklist
\* and never in a column.
C4_SentinelNeverLaidOut ==
    /\ Sentinel \notin DOMAIN depths
    /\ Sentinel \notin Range(to_process)
    /\ Sentinel \notin InColumns

\* C4 witness: the layout is built for a graph with the sentinel among the
\* output connections and in a socket of an instance the loop processed.
C4_Witness ==
    /\ LayoutDone
    /\ Sentinel \in Range(roots)
    /\ \E i \in DOMAIN depths : Sentinel \in SocketTargets(instance_table[i].sockets)
    /\ Len(instance_layout) >= 2

\* C5: on a graph with a cycle reachable from the output Root, init_layout has
\* failed by the time a recorded depth reaches the number of reachable
\* instances (a depth no acyclic path gives): it does not go on with growing depths.
C5_CycleDetected ==
    (~Acyclic /\ \E i \in DOMAIN depths : depths[i] >= Cardinality(Reachable)) =>
        pc = "panicked"

\* C6: on an acyclic graph whose connections all name existing instances, when
\* the worklist is empty no proposal would raise a recorded depth: every
\* instance a processed instance is connected to lies deeper than it.
C6_EndsAtFixpoint ==
    (LoopFinished /\ Acyclic /\ ~HasDangling) =>
        \A P \in DOMAIN depths : \A X \in ConnectedTo(P) :
            X \in DOMAIN depths /\ depths[X] >= depths[P] + 1

\* The part of C6 that holds: on such a graph the loop stops, so a state with
\* a non-empty worklist always has an iteration left to run and depths stay
\* below the number of instances.
C6_LoopRunsOut ==
    (pc = "loop" /\ Acyclic /\ ~HasDangling) =>
        /\ \A i \in DOMAIN depths : depths[i] < NumInstances
        /\ Len(to_process) > 0 => ENABLED ProcessNext

\* Fair scheduling of the single thread: a step that can be taken is taken.
FairLayoutSpec == LayoutSpec /\ WF_vars(LayoutNext)

\* The part of C6 that holds, as termination: the worklist becomes empty.
C6_WorklistEmpties ==
    (Acyclic /\ ~HasDangling) => <>(pc = "loop" /\ to_process = <<>>)

(***************************************************************************)
(* The session claims, checked under Spec.                                 *)
(***************************************************************************)

\* What enter_node_view has to return, given the failure that occurred.
ExpectedResult ==
    CASE io_error = "none" -> "Ok"
      [] io_error = "draw" -> "Err_draw"
      [] io_error = "read" -> "Err_read"

\* C7: once the terminal is initialised it is restored exactly once before
\* enter_node_view returns, not before run has returned, and the value
\* returned is the I/O error that occurred, or Ok when none did.
C7_RestoredExactlyOnce ==
    /\ term_restores <= term_inits
    /\ pc \in {"draw", "read", "restore"} => term_inits = 1 /\ term_restores = 0
    /\ pc = "restore" => result = ExpectedResult
    /\ pc = "returned" => term_inits = 1 /\ term_restores = 1 /\ result = ExpectedResult

\* C7 witness: enter_node_view has returned the error of a failed event read
\* that followed a completed draw.
C7_Witness ==
    /\ pc = "returned"
    /\ io_error = "read"
    /\ draws >= 1
    /\ term_restores = 1

\* C8: in the loop, the event read ends the loop with Ok and without another
\* draw exactly when it is a press of 'q'; any other event leads to the next
\* draw; once run has returned nothing is drawn or read.
C8_QuitEndsLoop ==
    [][ /\ \A e \in Events :
              HandleEvent(e) =>
                  IF e = KeyEvent("q", "Press")
                  THEN pc' = "restore" /\ result' = "Ok" /\ draws' = draws
                  ELSE pc' = "draw" /\ result' = result
        /\ pc \in {"restore", "returned"} =>
              /\ pc' \in {"restore", "returned"}
              /\ draws' = draws
              /\ reads' = reads ]_vars

\* C8 witness: run has returned Ok on a press of 'q' that came after an
\* earlier event.
C8_Witness ==
    /\ pc = "restore"
    /\ result = "Ok"
    /\ io_error = "none"
    /\ reads >= 2

\* C9: a press of scroll-right while the column offset is below the last
\* column raises the column offset by one.
C9_ScrollRightShifts ==
    [][ (HandleEvent(KeyEvent("Right", "Press")) /\ x_shift < Len(instance_layout) - 1)
            => x_shift' = x_shift + 1 ]_vars

\* C10: when some connection of the graph names an instance that is not in
\* the table, the terminal is never initialised and nothing is drawn.
C10_DanglingIsFatal ==
    HasDangling => (term_inits = 0 /\ draws = 0)

\* The render loop and what follows it.
InSession == pc \in {"draw", "read", "restore", "returned"}

\* C11: from the first draw on, the columns, the instance table, the roots and
\* the locals of init_layout are never written again and init_layout is not
\* entered again; a frame differs from the previous one at most in the view state.
C11_LayoutDerivedOnce ==
    [][ InSession =>
            /\ instance_layout' = instance_layout
            /\ instance_table' = instance_table
            /\ roots' = roots
            /\ layoutVars' = layoutVars
            /\ InSession' ]_vars

\* C11 witness: a second frame has been drawn, after an event, for a layout
\* of two columns.
C11_Witness ==
    /\ pc = "read"
    /\ draws = 2
    /\ reads = 1
    /\ Len(instance_layout) >= 2
    /\ Len(frame.requests) >= 3

\* C12: every read follows exactly one draw completed since the previous read
\* and leads to the next draw or out of the loop, whatever the event; every
\* completed draw follows a read (or starts the loop) and leads to a read.
C12_DrawReadAlternate ==
    [][ /\ reads' = reads + 1 =>
              (draws = reads + 1 /\ draws' = draws /\ pc' \in {"draw", "restore"})
        /\ draws' = draws + 1 =>
              (draws = reads /\ reads' = reads /\ pc' = "read") ]_vars

\* C12 witness: the second draw has completed after the first read and the
\* second read is pending.
C12_Witness ==
    /\ pc = "read"
    /\ draws = 2
    /\ reads = 1
    /\ io_error = "none"

(***************************************************************************)
(* Further layout claims, checked under LayoutSpec.                        *)
(***************************************************************************)

\* Column k of the layout (k = 0 is the column next to the output Root).
ColumnSet(k) == Range(instance_layout[k + 1])

C14_ColumnsOrderedByY ==
    LayoutDone =>
        \A k \in DOMAIN instance_layout :
            \A i, j \in DOMAIN instance_layout[k] :
                i < j => instance_table[instance_layout[k][i]].y
                            <= instance_table[instance_layout[k][j]].y

\* The depth values of the depth map.
DepthValues == {depths[id] : id \in DOMAIN depths}

\* C16: when the depth map is not empty, max_depth is the largest depth in the
\* final depth map, there are 1 + (largest depth) columns, and none is empty.
C16_MaxDepthIsLargestDepth ==
    (LoopFinished /\ DOMAIN depths # {}) =>
        /\ max_depth = SetMax(DepthValues)
        /\ LayoutDone =>
              /\ Len(instance_layout) = 1 + SetMax(DepthValues)
              /\ \A k \in DOMAIN instance_layout : Len(instance_layout[k]) > 0

\* C18: when the worklist loop has finished no recorded depth exceeds
\* max_depth, so every columns[depth] is one of the max_depth + 1 columns and
\* each instance of the depth map lands in the column of its depth.
C18_DepthsWithinColumns ==
    /\ LoopFinished => \A id \in DOMAIN depths : depths[id] <= max_depth
    /\ LayoutDone =>
          /\ Len(instance_layout) = max_depth + 1
          /\ \A id \in DOMAIN depths : id \in ColumnSet(depths[id])

\* C18 witness: the layout is built after a recorded depth was overwritten by
\* a smaller one, max_depth being larger than every depth left in the map.
C18_Witness ==
    /\ LayoutDone
    /\ DOMAIN depths # {}
    /\ max_depth > SetMax(DepthValues)

\* C20: on an acyclic graph, when the worklist loop has finished every
\* instance of the depth map has depth 0 and is directly connected to the
\* output Root, or has depth 1 + depth(P) for an instance P of the map with a
\* socket connected to it, depth(P) being P's final depth.
C20_LocallyConsistent ==
    (LoopFinished /\ Acyclic) =>
        \A X \in DOMAIN depths :
            \/ depths[X] = 0 /\ X \in RootConnected
            \/ \E P \in DOMAIN depths :
                  X \in ConnectedTo(P) /\ depths[X] = depths[P] + 1

\* C20 witness: the loop has finished on an acyclic graph in which two
\* instances of different depth are connected to the same instance.
C20_Witness ==
    /\ LoopFinished
    /\ Acyclic
    /\ \E X \in DOMAIN depths : \E P, Q \in DOMAIN depths :
          /\ X \in ConnectedTo(P) \cap ConnectedTo(Q)
          /\ depths[P] < depths[Q]
          /\ depths[X] >= 2

(***************************************************************************)
(* The claims about the frames, checked under Spec.                        *)
(***************************************************************************)

\* The cells of a rectangle.
Cells(r) == {<<x, y>> : x \in r.x..(r.x + r.width - 1), y \in r.y..(r.y + r.height - 1)}

ColumnRequests(k) ==
    LET InColumnK(request) == request.kind = "instance" /\ request.column = k
    IN  SelectSeq(frame.requests, InColumnK)

\* C17: in every frame, every column has one box per instance, the first at
\* row 0 and each next one (height of the previous box + 1) rows below the
\* start of the previous one.
C17_BoxesStackedWithOnePad ==
    draws >= 1 =>
        \A k \in DOMAIN instance_layout :
            LET boxes == ColumnRequests(k)
            IN  /\ Len(boxes) = Len(instance_layout[k])
                /\ Len(boxes) > 0 => boxes[1].area.y = 0
                /\ \A j \in 2..Len(boxes) :
                      boxes[j].area.y = boxes[j - 1].area.y + boxes[j - 1].area.height + 1

\* C17 witness: a frame with two boxes in one column and a box in another.
C17_Witness ==
    /\ draws >= 1
    /\ \E k \in DOMAIN instance_layout : Len(ColumnRequests(k)) >= 2
    /\ \E k \in DOMAIN instance_layout :
          k < Len(instance_layout) /\ Len(ColumnRequests(k)) >= 1

\* C19: once init_layout has returned, every key of the depth map and every
\* member of a column is a key of the instance table, and no draw fails on
\* the lookup of a column member.
C19_LaidOutInstancesExist ==
    LayoutDone =>
        /\ DOMAIN depths \subseteq DOMAIN instance_table
        /\ InColumns \subseteq DOMAIN instance_table
        /\ ~RenderPanics

\* C19 witness: a frame with instance boxes has been drawn for a graph in
\* which a socket names an instance that does not exist.
C19_Witness ==
    /\ draws >= 1
    /\ HasDangling
    /\ InColumns # {}
    /\ Len(frame.requests) >= 2

====
